---------------------------- MODULE Spec2Model ----------------------------
(***************************************************************************)
(* A model of the Google Drive scanner of src/main.py: the retry policy,   *)
(* the recursive folder scan, the change detection, the version arithmetic *)
(* and the bounded version history, with the two persisted bundles         *)
(* (data.json and changelog.json) as the state that survives a run.        *)
(*                                                                         *)
(* Python strings that the code parses or formats (versions, timestamps)   *)
(* are sequences of one-character (or one-token) strings, so that split,   *)
(* int(), the f-string and replace() are computed, not assumed.            *)
(***************************************************************************)
EXTENDS Integers, Sequences, FiniteSets, TLC

VARIABLES
    (* increment_version called as run() calls it (lines 604-606) *)
    vpc, vIn, vTotal, vHas, vOut,
    (* detect_changes on a tree and a previous scan *)
    dpc, dTree, dPrev, dCur, dOut,
    (* save_version_history on a stored history and a new entry *)
    hpc, hStored, hNew, hOut,
    (* the persisted bundles, and the runs of the scanner over them *)
    store, runs, faults, pc, remote, current_version, previous_data, stats,
    stack, call, lastCall, listingExhausted, scan_data, changes, new_version,
    (* what the claims need remembered: whether a listing of this run was
       denied, the attempts made in this run, and how the run before ended *)
    listingDenied, attempts, prevRun

versionVars == <<vpc, vIn, vTotal, vHas, vOut>>
diffVars    == <<dpc, dTree, dPrev, dCur, dOut>>
historyVars == <<hpc, hStored, hNew, hOut>>
runVars ==
    <<store, runs, faults, pc, remote, current_version, previous_data, stats,
      stack, call, lastCall, listingExhausted, scan_data, changes,
      new_version, listingDenied, attempts, prevRun>>
observed == <<listingDenied, attempts, prevRun>>
vars == <<versionVars, diffVars, historyVars, runVars>>

(***************************************************************************)
(* Python values and outcomes                                              *)
(***************************************************************************)
None == [kind |-> "none"]
Str(s) == [kind |-> "str", chars |-> s]
Num(n) == [kind |-> "num", n |-> n]

\* A JSON array as json.load returns it.
List(items) == [kind |-> "list", items |-> items]

\* A dict: the model's records and signature maps carry no kind.
IsDict(v) == "kind" \notin DOMAIN v

\* bool(v), as `if v` takes it.
Truthy(v) ==
    IF IsDict(v) THEN DOMAIN v # {}
    ELSE CASE v.kind = "none" -> FALSE
           [] v.kind = "str" -> v.chars # <<>>
           [] v.kind = "num" -> v.n # 0
           [] v.kind = "list" -> v.items # <<>>

Returned(v) == [exc |-> "none", val |-> v]
Raised(e) == [exc |-> e, val |-> None]

Range(s) == {s[i] : i \in DOMAIN s}

(***************************************************************************)
(* Version strings                                                         *)
(***************************************************************************)
DigitChars == <<"0", "1", "2", "3", "4", "5", "6", "7", "8", "9">>

DigitVal(c) == (CHOOSE i \in DOMAIN DigitChars : DigitChars[i] = c) - 1

IsDigit(c) == c \in Range(DigitChars)

RECURSIVE split(_, _)
\* str.split(sep) for a one-character separator: "a..b" -> ["a", "", "b"].
split(s, sep) ==
    IF \A i \in DOMAIN s : s[i] # sep
    THEN <<s>>
    ELSE LET i == CHOOSE k \in DOMAIN s :
                      s[k] = sep /\ \A j \in 1..(k - 1) : s[j] # sep
         IN <<SubSeq(s, 1, i - 1)>> \o split(SubSeq(s, i + 1, Len(s)), sep)

RECURSIVE Join(_, _)
\* sep.join(parts), character by character.
Join(parts, sep) ==
    IF parts = <<>> THEN <<>>
    ELSE IF Len(parts) = 1 THEN parts[1]
    ELSE parts[1] \o sep \o Join(Tail(parts), sep)

\* The digits of an int() literal: an optional sign, then the rest.
Unsigned(t) == IF Len(t) > 0 /\ t[1] \in {"-", "+"} THEN Tail(t) ELSE t

\* Whether int(t) succeeds (no ValueError): a sign and at least one digit.
IsIntLiteral(t) ==
    /\ Len(Unsigned(t)) > 0
    /\ \A i \in DOMAIN Unsigned(t) : IsDigit(Unsigned(t)[i])

RECURSIVE DigitsToNat(_)
DigitsToNat(t) ==
    IF t = <<>> THEN 0
    ELSE 10 * DigitsToNat(SubSeq(t, 1, Len(t) - 1)) + DigitVal(t[Len(t)])

\* int(t) for a literal t.
int(t) ==
    IF Len(t) > 0 /\ t[1] = "-" THEN 0 - DigitsToNat(Unsigned(t))
    ELSE DigitsToNat(Unsigned(t))

RECURSIVE NatToStr(_)
NatToStr(n) ==
    IF n < 10 THEN <<DigitChars[n + 1]>>
    ELSE NatToStr(n \div 10) \o <<DigitChars[(n % 10) + 1]>>

\* The f-string's rendering of an int.
IntToStr(n) == IF n < 0 THEN <<"-">> \o NatToStr(0 - n) ELSE NatToStr(n)

MaxDigit == 9

FallbackVersion == <<"1", ".", "0", ".", "1">>

DefaultVersion == <<"1", ".", "0", ".", "0">>

\* Seeded fault: the carry taken at 9 instead of past 9.
BumpVersion_CarryAtNine(major, minor, patch) ==
    LET p1 == patch + 1
        carryP == p1 >= MaxDigit
        m1 == IF carryP THEN minor + 1 ELSE minor
        carryM == carryP /\ m1 >= MaxDigit
    IN IntToStr(IF carryM THEN major + 1 ELSE major) \o <<".">>
         \o IntToStr(IF carryM THEN 0 ELSE m1) \o <<".">>
         \o IntToStr(IF carryP THEN 0 ELSE p1)

\* Lines 317-325: the carry arithmetic and the f-string.
BumpVersion(major, minor, patch) ==
    LET p1 == patch + 1
        carryP == p1 > MaxDigit
        m1 == IF carryP THEN minor + 1 ELSE minor
        carryM == carryP /\ m1 > MaxDigit
        newPatch == IF carryP THEN 0 ELSE p1
        newMinor == IF carryM THEN 0 ELSE m1
        newMajor == IF carryM THEN major + 1 ELSE major
    IN IntToStr(newMajor) \o <<".">> \o IntToStr(newMinor) \o <<".">>
         \o IntToStr(newPatch)

\* Lines 314-327: the try block: split, map(int), unpack into three names;
\* a ValueError (bad literal, wrong count) gives the fallback.
ParseAndBump(chars) ==
    LET parts == split(chars, ".")
    IN IF Len(parts) = 3 /\ \A i \in 1..3 : IsIntLiteral(parts[i])
       THEN BumpVersion(int(parts[1]), int(parts[2]), int(parts[3]))
       ELSE FallbackVersion

\* Seeded fault: the version bumped whether or not anything changed.
increment_version_AlwaysBumps(version, has_changes) ==
    IF version.kind # "str" THEN Raised("AttributeError")
    ELSE Returned(Str(ParseAndBump(version.chars)))

\* Lines 309-327.  current_version is whatever value was loaded; a value
\* without .split raises AttributeError, which "except ValueError" lets by.
increment_version(version, has_changes) ==
    IF ~has_changes THEN Returned(version)
    ELSE IF version.kind # "str" THEN Raised("AttributeError")
    ELSE Returned(Str(ParseAndBump(version.chars)))

\* Lines 604-606 of run(): has_changes from the change-set, then the version.
HasChanges(total_changes) == total_changes > 0

DetermineNewVersion(version, total_changes) ==
    increment_version(version, HasChanges(total_changes))


(***************************************************************************)
(* Python dicts: the keys in insertion order, and the mapping              *)
(***************************************************************************)
EmptyDict == [keys |-> <<>>, map |-> [k \in {} |-> None]]

DictHas(d, k) == k \in DOMAIN d.map

\* d[k] = v: a new key goes last, an old key keeps its place.
DictSet(d, k, v) ==
    [keys |-> IF DictHas(d, k) THEN d.keys ELSE Append(d.keys, k),
     map |-> [x \in DOMAIN d.map \cup {k} |-> IF x = k THEN v ELSE d.map[x]]]

(***************************************************************************)
(* Timestamps: token sequences such as <<"2024-01-01", "T", "10:00:00",    *)
(* ".000", "Z">>                                                           *)
(***************************************************************************)
NotAvailable == <<"N/A">>

\* Lines 371-374: replace("T", " "), replace("Z", ""), replace(".000", "").
safe_datetime_format(dt) ==
    IF dt = <<>> THEN NotAvailable
    ELSE LET kept == SelectSeq(dt, LAMBDA tok : tok \notin {"Z", ".000"})
         IN [i \in DOMAIN kept |-> IF kept[i] = "T" THEN " " ELSE kept[i]]

(***************************************************************************)
(* Tree nodes, as get_folder_tree builds them                              *)
(***************************************************************************)
\* Lines 337-345 (the kb, mb and gb renderings are not read by the program).
format_file_size(size_bytes) == [bytes |-> size_bytes]

\* Lines 484-494.
FileNode(id, name, size_bytes, modified) ==
    [type |-> "file", id |-> id, name |-> name,
     size |-> format_file_size(size_bytes),
     modifiedTime |-> safe_datetime_format(modified)]

\* Lines 500-508: what get_folder_tree returns for a folder.
TreeResult(fileCount, folderCount, children) ==
    [fileCount |-> fileCount, folderCount |-> folderCount,
     children |-> children]

\* Lines 429-442: a child folder, from its listing entry and its subtree.
FolderNode(id, name, description, subtree) ==
    [type |-> "folder", id |-> id, name |-> name, description |-> description,
     fileCount |-> subtree.fileCount, folderCount |-> subtree.folderCount,
     children |-> subtree.children]

(***************************************************************************)
(* Fingerprints and the signature map                                      *)
(***************************************************************************)
\* Lines 160-163: the md5 of "id-name-size-modifiedTime", kept as the tuple
\* that is hashed.
generate_file_signature(file_data) ==
    <<file_data.id, file_data.name, file_data.size, file_data.modifiedTime>>

\* Lines 173-179.
SignatureEntry(item) ==
    [signature |-> generate_file_signature(item),
     name |-> item.name,
     size |-> item.size.bytes,
     modified |-> item.modifiedTime]

RECURSIVE ExtractChildren(_, _, _)
\* Lines 170-181: the loop over children from index i on.
ExtractChildren(children, i, signatures) ==
    IF i > Len(children) THEN signatures
    ELSE LET item == children[i]
         IN IF item.type = "file"
            THEN ExtractChildren(children, i + 1,
                     DictSet(signatures, item.id, SignatureEntry(item)))
            ELSE ExtractChildren(children, i + 1,
                     ExtractChildren(item.children, 1, signatures))

\* Lines 165-183.
extract_file_signatures(folder_data) ==
    ExtractChildren(folder_data.children, 1, EmptyDict)

(***************************************************************************)
(* detect_changes                                                          *)
(***************************************************************************)
\* Lines 198-205.
AddedFiles(current_sigs, previous_sigs) ==
    LET ks == SelectSeq(current_sigs.keys,
                        LAMBDA k : ~DictHas(previous_sigs, k))
    IN [i \in DOMAIN ks |->
          [id |-> ks[i], name |-> current_sigs.map[ks[i]].name,
           size |-> current_sigs.map[ks[i]].size]]

\* Seeded fault: every previous file reported deleted.
DeletedFiles_NoMembershipTest(current_sigs, previous_sigs) ==
    [i \in DOMAIN previous_sigs.keys |->
        [id |-> previous_sigs.keys[i],
         name |-> previous_sigs.map[previous_sigs.keys[i]].name,
         size |-> previous_sigs.map[previous_sigs.keys[i]].size]]

\* Lines 207-214.
DeletedFiles(current_sigs, previous_sigs) ==
    LET ks == SelectSeq(previous_sigs.keys,
                        LAMBDA k : ~DictHas(current_sigs, k))
    IN [i \in DOMAIN ks |->
          [id |-> ks[i], name |-> previous_sigs.map[ks[i]].name,
           size |-> previous_sigs.map[ks[i]].size]]

\* Lines 222-224.
NameChanged(cur, prev) == cur.name # prev.name
SizeChanged(cur, prev) == cur.size # prev.size
TimeChanged(cur, prev) == cur.modified # prev.modified

\* Seeded fault: the three tests chained with elif, so only the first tag.
ChangeType_FirstTagOnly(cur, prev) ==
    IF NameChanged(cur, prev) THEN <<"renamed">>
    ELSE IF SizeChanged(cur, prev) THEN <<"resized">>
    ELSE IF TimeChanged(cur, prev) THEN <<"modified">>
    ELSE <<>>

\* Lines 228-234 and the join of line 244.
ChangeType(cur, prev) ==
    Join((IF NameChanged(cur, prev) THEN <<(<<"renamed">>)>> ELSE <<>>)
           \o (IF SizeChanged(cur, prev) THEN <<(<<"resized">>)>> ELSE <<>>)
           \o (IF TimeChanged(cur, prev) THEN <<(<<"modified">>)>> ELSE <<>>),
         <<", ">>)

\* Line 226.
IsModified(cur, prev) ==
    NameChanged(cur, prev) \/ SizeChanged(cur, prev) \/ TimeChanged(cur, prev)

\* Lines 216-245.
ModifiedFiles(current_sigs, previous_sigs) ==
    LET ks == SelectSeq(current_sigs.keys,
                 LAMBDA k : /\ DictHas(previous_sigs, k)
                            /\ IsModified(current_sigs.map[k],
                                          previous_sigs.map[k]))
    IN [i \in DOMAIN ks |->
          LET cur == current_sigs.map[ks[i]]
              prev == previous_sigs.map[ks[i]]
          IN [id |-> ks[i], name |-> cur.name, old_name |-> prev.name,
              old_modified |-> prev.modified, new_modified |-> cur.modified,
              old_size |-> prev.size, new_size |-> cur.size,
              change_type |-> ChangeType(cur, prev)]]

TotalChanges_OmitsModified(added, deleted, modified) ==
    Len(added) + Len(deleted)

\* Line 248.
TotalChanges(added, deleted, modified) ==
    Len(added) + Len(deleted) + Len(modified)

NoChangesSummary == <<"No changes detected">>

\* Lines 250-259.
Summary(added, deleted, modified) ==
    LET summary_parts ==
            (IF added # <<>>
             THEN <<IntToStr(Len(added)) \o <<" files added">> >> ELSE <<>>)
              \o (IF deleted # <<>>
                  THEN <<IntToStr(Len(deleted)) \o <<" files deleted">> >>
                  ELSE <<>>)
              \o (IF modified # <<>>
                  THEN <<IntToStr(Len(modified)) \o <<" files modified">> >>
                  ELSE <<>>)
    IN IF summary_parts # <<>> THEN Join(summary_parts, <<", ">>)
       ELSE NoChangesSummary

\* Lines 188-261, from the two signature maps on.
DiffSignatures(current_sigs, previous_sigs) ==
    LET added == AddedFiles(current_sigs, previous_sigs)
        deleted == DeletedFiles(current_sigs, previous_sigs)
        modified == ModifiedFiles(current_sigs, previous_sigs)
    IN [added_files |-> added,
        deleted_files |-> deleted,
        modified_files |-> modified,
        total_changes |-> TotalChanges(added, deleted, modified),
        summary |-> Summary(added, deleted, modified)]

\* Line 188: previous_data.get('file_signatures', {})
PreviousSigs(prev_data) ==
    IF "file_signatures" \in DOMAIN prev_data THEN prev_data.file_signatures
    ELSE EmptyDict

\* An entry the loops of lines 198-214 can subscript.
EntryUsable(e) == IsDict(e) /\ {"name", "size", "modified"} \subseteq DOMAIN e

\* A value the loops of lines 198-214 can walk: a dict of such entries.
IsSignatureMap(v) ==
    /\ IsDict(v) /\ "map" \in DOMAIN v
    /\ \A k \in DOMAIN v.map : EntryUsable(v.map[k])

\* What lines 198-214 raise on another value: `file_id not in` on a value
\* that is no container (line 199), .items() on one that is no dict
\* (line 208), a subscript on an entry that is no dict (lines 212-214).
DetectError(current_sigs, previous_sigs) ==
    IF IsDict(previous_sigs) THEN "TypeError"
    ELSE IF current_sigs.keys # <<>> /\ previous_sigs.kind \in {"none", "num"}
    THEN "TypeError"
    ELSE "AttributeError"

\* Lines 185-261.
detect_changes(current_data, prev_data) ==
    DiffSignatures(extract_file_signatures(current_data),
                   PreviousSigs(prev_data))

\* run(), lines 599-602: the call, which has no except clause of its own.
TryDetectChanges(current_data, prev_data) ==
    IF IsSignatureMap(PreviousSigs(prev_data))
    THEN Returned(detect_changes(current_data, prev_data))
    ELSE Raised(DetectError(extract_file_signatures(current_data),
                            PreviousSigs(prev_data)))

(***************************************************************************)
(* save_version_history                                                    *)
(***************************************************************************)
HistoryLimit == 50

HasKey(d, k) == k \in DOMAIN d

\* d[k] = v on a dict kept as a record.
SetKey(d, k, v) == [x \in DOMAIN d \cup {k} |-> IF x = k THEN v ELSE d[x]]

\* entry["version"] = entry.pop(old)
RenameToVersion(entry, old) ==
    [x \in (DOMAIN entry \ {old}) \cup {"version"} |->
        IF x = "version" THEN entry[old] ELSE entry[x]]

\* Lines 281-285, for one entry.
StandardizeEntry(entry) ==
    IF HasKey(entry, "current_version")
    THEN RenameToVersion(entry, "current_version")
    ELSE IF HasKey(entry, "n_version")
    THEN RenameToVersion(entry, "n_version")
    ELSE entry

\* Line 288: new_entry.get("changes", {}).get("total_changes", 0)
EntryTotalChanges(new_entry) ==
    IF HasKey(new_entry, "changes") /\ HasKey(new_entry.changes, "total_changes")
    THEN new_entry.changes.total_changes
    ELSE 0

\* Seeded fault: the head replaced by the new entry.
RefreshHead_ReplacesHead(history, new_entry) ==
    [history EXCEPT ![1] = new_entry]

\* Lines 289-293: the head refreshed in place.
RefreshHead(history, new_entry) ==
    LET dated == SetKey(history[1], "scan_date", new_entry.scan_date)
    IN [history EXCEPT ![1] =
          IF HasKey(new_entry, "stats")
          THEN SetKey(dated, "stats", new_entry.stats)
          ELSE dated]

\* Seeded fault: every scan inserted, changes or not.
MergeEntry_AlwaysInserts(history, new_entry) == <<new_entry>> \o history

MergeEntry_RefreshesOnChange(history, new_entry) ==
    IF history # <<>> THEN RefreshHead(history, new_entry)
    ELSE <<new_entry>> \o history

MergeEntry_Appends(history, new_entry) ==
    IF EntryTotalChanges(new_entry) = 0 /\ history # <<>>
    THEN RefreshHead(history, new_entry)
    ELSE history \o <<new_entry>>

\* Lines 287-296.
MergeEntry(history, new_entry) ==
    IF EntryTotalChanges(new_entry) = 0 /\ history # <<>>
    THEN RefreshHead(history, new_entry)
    ELSE <<new_entry>> \o history

\* Seeded fault: the slice taken from the tail, history[-50:].
LimitHistory_KeepsTail(history) ==
    IF Len(history) > HistoryLimit
    THEN SubSeq(history, Len(history) - HistoryLimit + 1, Len(history))
    ELSE history

\* Lines 298-300.
LimitHistory(history) ==
    IF Len(history) > HistoryLimit THEN SubSeq(history, 1, HistoryLimit)
    ELSE history

\* Lines 274-303, from the loaded history on.
save_version_history(history, new_entry) ==
    LimitHistory(
        MergeEntry([i \in DOMAIN history |-> StandardizeEntry(history[i])],
                   new_entry))

ScannerVersion == <<"1", ".", "0", ".", "0">>

\* Lines 553-564.
HistoryEntry(version, ph_time, chg, st) ==
    [version |-> version, scan_date |-> ph_time,
     scanner_version |-> ScannerVersion, changes |-> chg,
     stats |-> [totalFiles |-> st.totalFiles,
                totalFolders |-> st.totalFolders]]

(***************************************************************************)
(* make_api_call_with_retry                                                *)
(***************************************************************************)
maxRetries == 3

retryDelay == 2

RECURSIVE Pow2(_)
Pow2(n) == IF n = 0 THEN 1 ELSE 2 * Pow2(n - 1)

\* What one attempt can meet: a response, HTTP 429, HTTP 403, another
\* HttpError, or another exception.
Outcomes == {"ok", "rate", "forbidden", "http", "error"}

\* After the sleep the for loop goes on if the range has another attempt;
\* when it has none the function ends without a return statement.
AfterSleep(attempt) == IF attempt + 1 < maxRetries THEN "retry" ELSE "none"

AttemptEffect_FlatRateDelay(attempt, outcome) ==
    CASE outcome = "ok" ->
           [next |-> "return", error |-> <<>>, wait |-> <<>>]
      [] outcome = "rate" ->
           [next |-> AfterSleep(attempt), error |-> <<>>,
            wait |-> <<retryDelay>>]
      [] outcome = "forbidden" ->
           [next |-> "none", error |-> <<"Access forbidden">>, wait |-> <<>>]
      [] OTHER ->
           IF attempt = maxRetries - 1
           THEN [next |-> "raise", error |-> <<"API Error">>, wait |-> <<>>]
           ELSE [next |-> AfterSleep(attempt), error |-> <<>>,
                 wait |-> <<retryDelay>>]

AttemptEffect_ForbiddenRetried(attempt, outcome) ==
    CASE outcome = "ok" ->
           [next |-> "return", error |-> <<>>, wait |-> <<>>]
      [] outcome = "rate" ->
           [next |-> AfterSleep(attempt), error |-> <<>>,
            wait |-> <<retryDelay * Pow2(attempt)>>]
      [] OTHER ->
           IF attempt = maxRetries - 1
           THEN [next |-> "raise", error |-> <<"API Error">>, wait |-> <<>>]
           ELSE [next |-> AfterSleep(attempt), error |-> <<>>,
                 wait |-> <<retryDelay>>]

\* Lines 348-369: one iteration of the loop, attempt counted from 0.
\* next is "return" (the response), "none" (None is returned), "retry" or
\* "raise"; error is what is appended to stats['errors'], wait the sleep.
AttemptEffect(attempt, outcome) ==
    CASE outcome = "ok" ->
           [next |-> "return", error |-> <<>>, wait |-> <<>>]
      [] outcome = "rate" ->
           [next |-> AfterSleep(attempt), error |-> <<>>,
            wait |-> <<retryDelay * Pow2(attempt)>>]
      [] outcome = "forbidden" ->
           [next |-> "none", error |-> <<"Access forbidden">>, wait |-> <<>>]
      [] outcome = "http" ->
           IF attempt = maxRetries - 1
           THEN [next |-> "raise", error |-> <<"API Error">>, wait |-> <<>>]
           ELSE [next |-> AfterSleep(attempt), error |-> <<>>,
                 wait |-> <<retryDelay>>]
      [] outcome = "error" ->
           IF attempt = maxRetries - 1
           THEN [next |-> "raise", error |-> <<"Unexpected error">>,
                 wait |-> <<>>]
           ELSE [next |-> AfterSleep(attempt), error |-> <<>>,
                 wait |-> <<retryDelay>>]

\* A call in progress: the attempts made so far, with what each one slept
\* and what the call has appended to stats['errors'].
StatsAfterAttempt_CountsSuccesses(st, eff) ==
    [st EXCEPT !.apiCallsCount = IF eff.next = "return" THEN @ + 1 ELSE @,
               !.errors = @ \o eff.error]

\* Lines 350, 359, 362, 367: the counter and the error list after an
\* attempt.
StatsAfterAttempt(st, eff) ==
    [st EXCEPT !.apiCallsCount = @ + 1, !.errors = @ \o eff.error]

FreshCall ==
    [attempt |-> 0, outcomes |-> <<>>, waits |-> <<>>, errors |-> <<>>]

NoCall == [kind |-> "nocall", outcomes |-> <<>>, waits |-> <<>>,
           errors |-> <<>>, status |-> "nocall"]

(***************************************************************************)
(* The remote folder tree and its paginated listing                        *)
(***************************************************************************)
RootId == "root"

SubId == "d1"

DeepId == "d2"

FolderMime == "application/vnd.google-apps.folder"

RemotePageSize == 1

\* A file as files().list returns it: the size is a decimal string.
RemoteFile(id, v) ==
    [id |-> id, name |-> v.name, mimeType |-> "text/plain",
     size |-> NatToStr(v.size), modifiedTime |-> v.time,
     createdTime |-> v.time]

RemoteFolder(id, name) == [id |-> id, name |-> name, mimeType |-> FolderMime]

RemoteFilesAt(placement, locs) ==
    LET ks == SelectSeq(<<"f1", "f2", "f3">>,
                        LAMBDA k : /\ k \in DOMAIN placement
                                   /\ placement[k].loc \in locs)
    IN [i \in DOMAIN ks |-> RemoteFile(ks[i], placement[ks[i]].v)]

\* The children of a remote folder: the root's files and then its
\* subfolder, which exists when a file is placed in it or below it; the
\* subfolder's own subfolder, which exists when a file is placed in it, and
\* then the subfolder's files.
RemoteEntries(placement, folder_id) ==
    IF folder_id = RootId
    THEN RemoteFilesAt(placement, {"root", "both"})
           \o (IF RemoteFilesAt(placement, {"sub", "both", "deep"}) # <<>>
               THEN <<RemoteFolder(SubId, "sub")>> ELSE <<>>)
    ELSE IF folder_id = SubId
    THEN (IF RemoteFilesAt(placement, {"deep"}) # <<>>
          THEN <<RemoteFolder(DeepId, "deep")>> ELSE <<>>)
           \o RemoteFilesAt(placement, {"sub", "both"})
    ELSE IF folder_id = DeepId
    THEN RemoteFilesAt(placement, {"deep"})
    ELSE <<>>

\* files().list(...).execute(): one page, with nextPageToken when more
\* follow (lines 409-416).
ListPage(placement, folder_id, page_token) ==
    LET all == RemoteEntries(placement, folder_id)
        first == IF page_token = None THEN 1 ELSE page_token.n
        last == IF first + RemotePageSize - 1 < Len(all)
                THEN first + RemotePageSize - 1 ELSE Len(all)
    IN [files |-> SubSeq(all, first, last),
        nextPageToken |-> IF last < Len(all) THEN Num(last + 1) ELSE None]

\* files().get(fileId, fields='description').execute() (lines 378-382).
GetMeta(placement, folder_id) == [description |-> <<"notes of ", folder_id>>]

(***************************************************************************)
(* get_folder_tree: one frame per folder being listed                      *)
(***************************************************************************)
\* Lines 390-406.
NewFrame(folder_id) ==
    [folder_id |-> folder_id, page_token |-> None, children |-> <<>>,
     fileCount |-> 0, folderCount |-> 0, phase |-> "list",
     response |-> None, items |-> <<>>, item |-> None, subtree |-> None,
     meta |-> None]

\* Lines 92-99.
InitialStats ==
    [totalFiles |-> 0, totalFolders |-> 0, apiCallsCount |-> 0,
     errors |-> <<>>]

\* Line 461: int(item.get('size', 0) or 0)
SizeBytes(item) ==
    IF HasKey(item, "size") /\ item.size # <<>> THEN int(item.size) ELSE 0

\* Line 478: item.get('modifiedTime') or item.get('createdTime')
ModifiedOf(item) ==
    IF HasKey(item, "modifiedTime") /\ item.modifiedTime # <<>>
    THEN item.modifiedTime
    ELSE IF HasKey(item, "createdTime") THEN item.createdTime ELSE <<>>

\* Lines 457-494: a file entry of the page.
FrameWithFile(frame, item) ==
    [frame EXCEPT
       !.fileCount = @ + 1,
       !.children = Append(@, FileNode(item.id, item.name, SizeBytes(item),
                                       ModifiedOf(item))),
       !.items = Tail(@)]

\* Lines 423-424: a folder entry of the page, before the recursive call.
FrameEnteringFolder(frame, item) ==
    [frame EXCEPT !.folderCount = @ + 1, !.item = item, !.items = Tail(@),
                  !.phase = "sub"]

FrameWithFolder_SubfoldersNotFolded(frame, description) ==
    [frame EXCEPT
       !.children = Append(@, FolderNode(frame.item.id, frame.item.name,
                                         description, frame.subtree)),
       !.fileCount = @ + frame.subtree.fileCount,
       !.item = None, !.subtree = None, !.meta = None, !.phase = "items"]

\* Lines 429-446: the child folder appended and its aggregates folded in.
FrameWithFolder(frame, description) ==
    [frame EXCEPT
       !.children = Append(@, FolderNode(frame.item.id, frame.item.name,
                                         description, frame.subtree)),
       !.fileCount = @ + frame.subtree.fileCount,
       !.folderCount = @ + frame.subtree.folderCount,
       !.item = None, !.subtree = None, !.meta = None, !.phase = "items"]

FrameAfterPage_TokenIgnored(frame) == [frame EXCEPT !.phase = "return"]

\* Lines 496-498: the page's nextPageToken becomes the next request's
\* pageToken; without one the loop ends.
FrameAfterPage(frame) ==
    IF frame.response.nextPageToken = None
    THEN [frame EXCEPT !.phase = "return"]
    ELSE [frame EXCEPT !.page_token = frame.response.nextPageToken,
                       !.phase = "list"]

CallerCatches_Never(kind) == FALSE

\* What becomes of an exception of make_api_call_with_retry: the listing
\* call of get_folder_tree (lines 409-416) is in no try block, the call of
\* get_folder_description is (lines 377-385, `except Exception`).
CallerCatches(kind) == kind = "desc"

\* Line 383: meta.get('description', '') if meta else ''
DescriptionOf(meta) ==
    IF meta # None /\ HasKey(meta, "description") THEN meta.description
    ELSE <<>>

(***************************************************************************)
(* The persisted bundles                                                   *)
(***************************************************************************)
Missing == [kind |-> "missing"]

Corrupt == [kind |-> "corrupt"]

\* Valid JSON that is no object: data.get raises AttributeError.
NonObject == [kind |-> "nonobject"]

\* Lines 151-158.
DefaultPrevious ==
    [version |-> Str(DefaultVersion), scan_date |-> None,
     data |-> EmptyDict, file_signatures |-> EmptyDict,
     total_files |-> 0, total_folders |-> 0]

load_previous_scan_VersionNotRestored(changelog, version) ==
    LET default ==
            [previous_data |-> DefaultPrevious, current_version |-> version]
    IN IF changelog.kind # "json" THEN default
       ELSE IF ~HasKey(changelog, "scan_history") THEN default
       ELSE IF ~Truthy(changelog.scan_history) THEN default
       ELSE IF ~IsDict(changelog.scan_history) THEN default
       ELSE [previous_data |-> changelog.scan_history,
             current_version |-> version]

\* Lines 134-158: the previous scan and the version it sets.
load_previous_scan(changelog, version) ==
    LET default ==
            [previous_data |-> DefaultPrevious, current_version |-> version]
    IN IF changelog.kind # "json" THEN default
       ELSE IF ~HasKey(changelog, "scan_history") THEN default
       ELSE IF ~Truthy(changelog.scan_history) THEN default
       ELSE IF ~IsDict(changelog.scan_history) THEN default
       ELSE [previous_data |-> changelog.scan_history,
             current_version |->
                 IF HasKey(changelog.scan_history, "version")
                 THEN changelog.scan_history.version
                 ELSE Str(DefaultVersion)]

\* Lines 263-272.
load_version_history(changelog) ==
    IF changelog.kind = "json" /\ HasKey(changelog, "version_history")
    THEN changelog.version_history ELSE <<>>

\* Lines 523-534.
OutputData(scan, version, ph_time, st) ==
    [kind |-> "json", version |-> version, scan_date |-> ph_time,
     scanner_version |-> ScannerVersion,
     stats |-> [totalFiles |-> st.totalFiles,
                totalFolders |-> st.totalFolders,
                apiCallsCount |-> st.apiCallsCount],
     data |-> scan]

ScanHistoryEntry_Unsigned(scan, version, ph_time, chg, file_signatures, st) ==
    [version |-> version, scan_date |-> ph_time,
     scanner_version |-> ScannerVersion, changes |-> chg, data |-> scan,
     file_signatures |-> EmptyDict,
     total_files |-> st.totalFiles, total_folders |-> st.totalFolders]

\* Lines 541-551.
ScanHistoryEntry(scan, version, ph_time, chg, file_signatures, st) ==
    [version |-> version, scan_date |-> ph_time,
     scanner_version |-> ScannerVersion, changes |-> chg, data |-> scan,
     file_signatures |-> file_signatures,
     total_files |-> st.totalFiles, total_folders |-> st.totalFolders]

\* Lines 553-573.
ChangelogData(changelog, scan, version, ph_time, chg, file_signatures, st) ==
    [kind |-> "json",
     scan_history |->
         ScanHistoryEntry(scan, version, ph_time, chg, file_signatures, st),
     version_history |->
         save_version_history(load_version_history(changelog),
                              HistoryEntry(version, ph_time, chg, st))]

(***************************************************************************)
(* Idle values: a specification that exercises one part of the program     *)
(* leaves the variables of the other parts at these.                       *)
(***************************************************************************)
\* No run before this one.
NoRun == [done |-> FALSE, remote |-> None, listed |-> FALSE,
          changelog |-> Missing]

IdleVersion ==
    /\ vpc = "off" /\ vIn = None /\ vTotal = 0 /\ vHas = FALSE /\ vOut = None

IdleDiff ==
    dpc = "off" /\ dTree = None /\ dPrev = None /\ dCur = None /\ dOut = None

IdleHistory == hpc = "off" /\ hStored = <<>> /\ hNew = None /\ hOut = None

IdleRun ==
    /\ store = [data |-> Missing, changelog |-> Missing]
    /\ runs = 0 /\ faults = 0 /\ pc = "off"
    /\ remote = None /\ current_version = None /\ previous_data = None
    /\ stats = InitialStats /\ stack = <<>> /\ call = FreshCall
    /\ lastCall = NoCall /\ listingExhausted = FALSE
    /\ listingDenied = FALSE /\ attempts = 0 /\ prevRun = NoRun
    /\ scan_data = None /\ changes = None /\ new_version = None

(***************************************************************************)
(* SpecVersion: the version step of run() on every bounded input           *)
(***************************************************************************)
MaxParts == 4

MaxTotal == 2

OneDigit == {<<DigitChars[i]>> : i \in DOMAIN DigitChars}

OddComponents ==
    {<<"1", "0">>, <<"0", "9">>, <<"9", "9">>, <<"-", "1">>, <<"+", "2">>,
     <<"x">>, <<"1", "x">>, <<>>}

ShapeComponents == {<<"1">>, <<"9">>, <<"x">>, <<>>}

ThreePartVersions ==
    {Join(<<a, b, c>>, <<".">>) : a, b, c \in OneDigit \cup OddComponents}

OtherShapeVersions ==
    UNION {{Join(p, <<".">>) : p \in [1..n -> ShapeComponents]} :
             n \in (1..MaxParts) \ {3}}

\* What load_previous_scan can hand over as current_version (line 142): any
\* JSON value stored under "version".
VersionInputs ==
    {Str(s) : s \in ThreePartVersions \cup OtherShapeVersions}
      \cup {None, Num(1)}

InitVersion ==
    /\ vpc = "ready"
    /\ vIn \in VersionInputs
    /\ vTotal \in 0..MaxTotal
    /\ vHas = FALSE
    /\ vOut = None
    /\ IdleDiff /\ IdleHistory /\ IdleRun

\* run(), lines 604-606.
CallIncrementVersion ==
    /\ vpc = "ready"
    /\ vHas' = HasChanges(vTotal)
    /\ vOut' = DetermineNewVersion(vIn, vTotal)
    /\ vpc' = "done"
    /\ UNCHANGED <<vIn, vTotal, diffVars, historyVars, runVars>>

NextVersion == CallIncrementVersion

SpecVersion == InitVersion /\ [][NextVersion]_vars

\* A 'major.minor.patch' string: three dot-separated int() literals.
WellFormed(v) ==
    /\ v.kind = "str"
    /\ Len(split(v.chars, ".")) = 3
    /\ \A i \in 1..3 : IsIntLiteral(split(v.chars, ".")[i])

Triple(v) == [i \in 1..3 |-> int(split(v.chars, ".")[i])]

\* (major, minor, patch) compared lexicographically as integers.
LexLess(a, b) ==
    \/ a[1] < b[1]
    \/ a[1] = b[1] /\ a[2] < b[2]
    \/ a[1] = b[1] /\ a[2] = b[2] /\ a[3] < b[3]

\* The step of C23 at every version the program can have persisted, carries
\* included: from a well-formed version with minor and patch in 0..9 a
\* change yields a strictly greater version, whatever the major.
C23_BumpIncreases ==
    (/\ vpc = "done" /\ vTotal > 0 /\ WellFormed(vIn)
     /\ Triple(vIn)[2] \in 0..9 /\ Triple(vIn)[3] \in 0..9) =>
        /\ vOut.exc = "none"
        /\ LexLess(Triple(vIn), Triple(vOut.val))

\* C3: increment_version returns v itself when has_changes is false (any v),
\* a different version when has_changes is true and v is well-formed, and
\* run() passes has_changes = (total_changes > 0).
C3_VersionChangesIffChanges ==
    vpc = "done" =>
        /\ vHas <=> (vTotal > 0)
        /\ (vTotal = 0) => vOut = Returned(vIn)
        /\ (vTotal > 0 /\ WellFormed(vIn)) =>
               /\ vOut.exc = "none"
               /\ vOut.val # vIn

C3_Witness ==
    /\ vpc = "done" /\ vTotal > 0 /\ WellFormed(vIn)
    /\ vIn = Str(<<"1", ".", "9", ".", "9">>)
    /\ vOut = Returned(Str(<<"2", ".", "0", ".", "0">>))

\* The carry successor of a triple whose minor and patch are digits.
CarrySuccessor(t) ==
    IF t[3] < 9 THEN <<t[1], t[2], t[3] + 1>>
    ELSE IF t[2] < 9 THEN <<t[1], t[2] + 1, 0>>
    ELSE <<t[1] + 1, 0, 0>>

\* C4: for a well-formed (M, m, p) with m and p in 0..9, the new version is
\* the carry successor: (M, m, p+1), (M, m+1, 0) or (M+1, 0, 0).
C4_CarrySuccessor ==
    (/\ vpc = "done" /\ vTotal > 0 /\ WellFormed(vIn)
     /\ Triple(vIn)[2] \in 0..9 /\ Triple(vIn)[3] \in 0..9) =>
        /\ vOut.exc = "none"
        /\ WellFormed(vOut.val)
        /\ Triple(vOut.val) = CarrySuccessor(Triple(vIn))

C4_Witness ==
    /\ vpc = "done" /\ vTotal > 0
    /\ vIn = Str(<<"1", ".", "2", ".", "9">>)
    /\ vOut = Returned(Str(<<"1", ".", "3", ".", "0">>))

\* C16: from a version whose three components are all in 0..9,
\* increment_version produces a version whose three components are all in
\* 0..9.
C16_ComponentsStayDigits ==
    (/\ vpc = "done" /\ WellFormed(vIn)
     /\ \A i \in 1..3 : Triple(vIn)[i] \in 0..9) =>
        /\ vOut.exc = "none"
        /\ WellFormed(vOut.val)
        /\ \A i \in 1..3 : Triple(vOut.val)[i] \in 0..9

\* A malformed previous version: not a string, the wrong number of
\* components, or a component int() rejects.
Malformed(v) == ~WellFormed(v)

\* C10: for every malformed previous version, increment_version with
\* has_changes true returns the fallback "1.0.1" and never raises.
C10_MalformedFallsBack ==
    (vpc = "done" /\ vTotal > 0 /\ Malformed(vIn)) =>
        vOut = Returned(Str(FallbackVersion))


(***************************************************************************)
(* SpecDiff: detect_changes on every bounded tree and previous scan        *)
(***************************************************************************)
FileOrder == <<"f1", "f2">>

FileIds == Range(FileOrder)

FileNames == {"a.txt", "b.txt"}

FileSizes == {100, 500}

RemoteTimes ==
    {<<"2024-01-01", "T", "10:00:00", ".000", "Z">>,
     <<"2024-02-02", "T", "09:30:00", ".000", "Z">>}

FileVariants == [name : FileNames, size : FileSizes, time : RemoteTimes]

Absent == [loc |-> "absent"]

\* Where a file is in the scanned tree: the root, the subfolder, or both.
Placements ==
    {Absent} \cup
    {[loc |-> l, v |-> v] : l \in {"root", "sub", "both"}, v \in FileVariants}

\* The file nodes of the ids placed at one of locs, in listing order.
NodesAt(placement, locs) ==
    LET ks == SelectSeq(FileOrder, LAMBDA k : placement[k].loc \in locs)
    IN [i \in DOMAIN ks |->
          FileNode(ks[i], placement[ks[i]].v.name, placement[ks[i]].v.size,
                   placement[ks[i]].v.time)]

\* The tree a scan returns for a placement: the root's files, then the
\* subfolder with its files.
TreeOf(placement) ==
    LET rootFiles == NodesAt(placement, {"root", "both"})
        subFiles == NodesAt(placement, {"sub", "both"})
        sub == FolderNode("d1", "sub", <<>>,
                          TreeResult(Len(subFiles), 0, subFiles))
    IN IF subFiles = <<>>
       THEN TreeResult(Len(rootFiles), 0, rootFiles)
       ELSE TreeResult(Len(rootFiles) + Len(subFiles), 1,
                       Append(rootFiles, sub))

PrevChoices == {Absent} \cup {[loc |-> "root", v |-> v] : v \in FileVariants}

\* The previous scan as an earlier run persisted it (lines 542-551).
PrevScanOf(choice) ==
    [file_signatures |-> extract_file_signatures(TreeOf(choice))]

InitDiff ==
    /\ dpc = "ready"
    /\ \E placement \in [FileIds -> Placements] : dTree = TreeOf(placement)
    /\ \E choice \in [FileIds -> PrevChoices] : dPrev = PrevScanOf(choice)
    /\ dCur = None
    /\ dOut = None
    /\ IdleVersion /\ IdleHistory /\ IdleRun

\* run(), lines 599-602.
CallDetectChanges ==
    /\ dpc = "ready"
    /\ dCur' = extract_file_signatures(dTree)
    /\ dOut' = detect_changes(dTree, dPrev)
    /\ dpc' = "done"
    /\ UNCHANGED <<dTree, dPrev, versionVars, historyVars, runVars>>

NextDiff == CallDetectChanges

SpecDiff == InitDiff /\ [][NextDiff]_vars

IdsOf(entries) == {entries[i].id : i \in DOMAIN entries}

CurIds == DOMAIN dCur.map

PrevIds == DOMAIN dPrev.file_signatures.map

UnchangedIds == (CurIds \cap PrevIds) \ IdsOf(dOut.modified_files)

\* C5: added_files are exactly the ids of the current signature map that the
\* previous one lacks, deleted_files exactly those of the previous map that
\* the current one lacks, each id once; added, deleted and modified are
\* pairwise disjoint; and with unchanged = the ids in both maps not reported
\* modified, |added| + |unchanged| + |modified| = |current signatures| and
\* |deleted| + |unchanged| + |modified| = |previous signatures|.
C5_AddedDeletedComplete ==
    dpc = "done" =>
        LET added == dOut.added_files
            deleted == dOut.deleted_files
            modified == dOut.modified_files
        IN /\ IdsOf(added) = CurIds \ PrevIds
           /\ IdsOf(deleted) = PrevIds \ CurIds
           /\ Len(added) = Cardinality(IdsOf(added))
           /\ Len(deleted) = Cardinality(IdsOf(deleted))
           /\ Len(modified) = Cardinality(IdsOf(modified))
           /\ IdsOf(added) \cap IdsOf(deleted) = {}
           /\ IdsOf(added) \cap IdsOf(modified) = {}
           /\ IdsOf(deleted) \cap IdsOf(modified) = {}
           /\ Len(added) + Cardinality(UnchangedIds) + Len(modified)
                = Cardinality(CurIds)
           /\ Len(deleted) + Cardinality(UnchangedIds) + Len(modified)
                = Cardinality(PrevIds)

\* An id added, another deleted, from a tree that lists the added id twice.
C5_Witness ==
    /\ dpc = "done"
    /\ IdsOf(dOut.added_files) = {"f2"}
    /\ IdsOf(dOut.deleted_files) = {"f1"}
    /\ Len(SelectSeq(dTree.children, LAMBDA c : c.id = "f2")) = 1
    /\ \E i \in DOMAIN dTree.children :
          /\ dTree.children[i].type = "folder"
          /\ "f2" \in IdsOf(dTree.children[i].children)

\* C6: an id in both maps is in modified_files iff its name, size or
\* modified time differs, and its change_type holds "renamed" iff the name
\* differs, "resized" iff the size differs, "modified" iff the time differs.
C6_ModifiedTags ==
    dpc = "done" =>
        \A k \in CurIds \cap PrevIds :
            LET cur == dCur.map[k]
                prev == dPrev.file_signatures.map[k]
                differs == \/ cur.name # prev.name
                           \/ cur.size # prev.size
                           \/ cur.modified # prev.modified
                hits == SelectSeq(dOut.modified_files, LAMBDA m : m.id = k)
            IN /\ differs <=> (Len(hits) = 1)
               /\ ~differs <=> (Len(hits) = 0)
               /\ \A i \in DOMAIN hits :
                    LET tags == Range(hits[i].change_type)
                    IN /\ ("renamed" \in tags) <=> (cur.name # prev.name)
                       /\ ("resized" \in tags) <=> (cur.size # prev.size)
                       /\ ("modified" \in tags)
                            <=> (cur.modified # prev.modified)

\* The previous map holds f1 and f2, the tree only f1 with another size:
\* deleted = [f2], modified = [f1, resized], added = [], total_changes = 2.
C6_Witness ==
    /\ dpc = "done"
    /\ PrevIds = {"f1", "f2"}
    /\ dOut.added_files = <<>>
    /\ IdsOf(dOut.deleted_files) = {"f2"}
    /\ Len(dOut.modified_files) = 1
    /\ dOut.modified_files[1].id = "f1"
    /\ dOut.modified_files[1].change_type = <<"resized">>
    /\ dOut.total_changes = 2


(***************************************************************************)
(* SpecHistory: save_version_history on stored histories of every length   *)
(* the program keeps, with current and legacy version keys                 *)
(***************************************************************************)
VersionKeys == {"version", "current_version", "n_version"}

\* The version k change-bearing scans after 1.0.0.
VersionAfter(k) ==
    Str(IntToStr(1 + (k \div 100)) \o <<".">> \o IntToStr((k \div 10) % 10)
          \o <<".">> \o IntToStr(k % 10))

ManyFileIds == <<"f1", "f2", "f3", "f4">>

\* A change-set with c added files.
ChangeSetOfSize(c) ==
    DiffSignatures(
        extract_file_signatures(
            TreeResult(c, 0,
                [i \in 1..c |->
                    FileNode(ManyFileIds[i], "a.txt", 100,
                             <<"2024-01-01", "T", "10:00:00", ".000", "Z">>)])),
        EmptyDict)

\* The i-th newest of n stored entries; those from legacyFrom on were
\* written under the key legacyKey.
StoredEntry(n, i, legacyFrom, legacyKey) ==
    LET e == HistoryEntry(VersionAfter(n - i), n - i + 1,
                          ChangeSetOfSize(IF i = n THEN 0 ELSE 1 + (i % 2)),
                          [totalFiles |-> i, totalFolders |-> 1])
    IN IF i >= legacyFrom
       THEN [x \in (DOMAIN e \ {"version"}) \cup {legacyKey} |->
                IF x = legacyKey THEN e.version ELSE e[x]]
       ELSE e

InitHistory ==
    /\ hpc = "ready"
    /\ \E n \in 0..HistoryLimit, legacyKey \in VersionKeys :
         \E legacyFrom \in {1, 2, n + 1} :
            hStored = [i \in 1..n |-> StoredEntry(n, i, legacyFrom, legacyKey)]
    /\ \E c \in 0..MaxTotal, withStats \in BOOLEAN :
         LET e == HistoryEntry(VersionAfter(Len(hStored) + 1),
                               Len(hStored) + 1, ChangeSetOfSize(c),
                               [totalFiles |-> c, totalFolders |-> 0])
         IN hNew = IF withStats THEN e
                   ELSE [x \in DOMAIN e \ {"stats"} |-> e[x]]
    /\ hOut = None
    /\ IdleVersion /\ IdleDiff /\ IdleRun

\* save_scan_with_version, line 567.
CallSaveVersionHistory ==
    /\ hpc = "ready"
    /\ hOut' = save_version_history(hStored, hNew)
    /\ hpc' = "done"
    /\ UNCHANGED <<hStored, hNew, versionVars, diffVars, runVars>>

NextHistory == CallSaveVersionHistory

SpecHistory == InitHistory /\ [][NextHistory]_vars

\* An entry read by its fields, the version under whichever key holds it.
EntryView(e) ==
    [version |-> IF "version" \in DOMAIN e THEN e.version
                 ELSE IF "current_version" \in DOMAIN e THEN e.current_version
                 ELSE e.n_version,
     rest |-> [x \in DOMAIN e \ VersionKeys |-> e[x]]]

Min(a, b) == IF a < b THEN a ELSE b

\* C7: the returned history has at most 50 entries; when the new entry has
\* total_changes > 0 it is the head, followed by the stored entries in their
\* order with only the oldest dropped (50 stored entries stay 50: the new
\* one and the first 49).
C7_HistoryBounded ==
    hpc = "done" =>
        /\ Len(hOut) <= 50
        /\ hNew.changes.total_changes > 0 =>
              /\ hOut[1] = hNew
              /\ Len(hOut) = Min(Len(hStored) + 1, 50)
              /\ \A i \in 2..Len(hOut) :
                    EntryView(hOut[i]) = EntryView(hStored[i - 1])

C7_Witness ==
    /\ hpc = "done"
    /\ Len(hStored) = 50
    /\ hNew.changes.total_changes > 0
    /\ Len(hOut) = 50
    /\ hOut[1] = hNew
    /\ EntryView(hOut[50]) = EntryView(hStored[49])

MaxRuns == 2

\* Enough failures to use up one call's whole retry budget.
MaxFaults == maxRetries

VariantA ==
    [name |-> "a.txt", size |-> 100,
     time |-> <<"2024-01-01", "T", "10:00:00", ".000", "Z">>]

VariantB ==
    [name |-> "a.txt", size |-> 500,
     time |-> <<"2024-01-01", "T", "10:00:00", ".000", "Z">>]

\* The remote trees a run can meet: empty, f1 in the root (in one of two
\* sizes), and f1 in the root with f2 in the subfolder.
RunRemotes ==
    {[f1 |-> Absent, f2 |-> Absent],
     [f1 |-> [loc |-> "root", v |-> VariantA], f2 |-> Absent],
     [f1 |-> [loc |-> "root", v |-> VariantB], f2 |-> Absent],
     [f1 |-> [loc |-> "root", v |-> VariantA],
      f2 |-> [loc |-> "sub", v |-> VariantA]]}

Top == stack[Len(stack)]

SetTop(frame) == [stack EXCEPT ![Len(stack)] = frame]

\* All maxRetries attempts of a call failed, none with a permission-denied
\* response.
Exhausted(outcomes) ==
    /\ Len(outcomes) = maxRetries
    /\ \A i \in DOMAIN outcomes : outcomes[i] \in {"rate", "http", "error"}

Init ==
    /\ store = [data |-> Missing, changelog |-> Missing]
    /\ runs = 0 /\ faults = 0 /\ pc = "idle"
    /\ remote = None /\ current_version = None /\ previous_data = None
    /\ stats = InitialStats /\ stack = <<>> /\ call = FreshCall
    /\ lastCall = NoCall /\ listingExhausted = FALSE
    /\ listingDenied = FALSE /\ attempts = 0 /\ prevRun = NoRun
    /\ scan_data = None /\ changes = None /\ new_version = None
    /\ IdleVersion /\ IdleDiff /\ IdleHistory

\* A new process: SimpleDriveScanner() (lines 87-99) and the call of run().
StartRun ==
    /\ pc \in {"idle", "done", "failed"}
    /\ runs < MaxRuns
    /\ runs' = runs + 1
    /\ remote' \in RunRemotes
    /\ current_version' = Str(DefaultVersion)
    /\ stats' = InitialStats
    /\ previous_data' = None /\ stack' = <<>> /\ call' = FreshCall
    /\ lastCall' = NoCall /\ listingExhausted' = FALSE
    /\ listingDenied' = FALSE /\ attempts' = 0
    /\ prevRun' = [done |-> pc = "done", remote |-> remote,
                   listed |-> ~listingExhausted /\ ~listingDenied,
                   changelog |-> store.changelog]
    /\ scan_data' = None /\ changes' = None /\ new_version' = None
    /\ pc' = "load"
    /\ UNCHANGED <<store, faults, versionVars, diffVars, historyVars>>

\* run(), lines 589-593: the previous scan loaded, the root's listing begun.
LoadPrevious ==
    /\ pc = "load"
    /\ LET loaded == load_previous_scan(store.changelog, current_version)
       IN /\ previous_data' = loaded.previous_data
          /\ current_version' = loaded.current_version
    /\ stack' = <<NewFrame(RootId)>>
    /\ call' = FreshCall
    /\ pc' = "scan"
    /\ UNCHANGED <<store, runs, faults, remote, stats, lastCall,
                   listingExhausted, scan_data, changes, new_version,
                   versionVars, diffVars, historyVars, observed>>

\* One attempt of make_api_call_with_retry (lines 348-369) for the call the
\* top frame waits on: the listing of lines 409-416 or the description
\* fetch of lines 378-385, whose except clause turns a raise into ''.
ApiAttempt ==
    /\ pc = "scan" /\ stack # <<>> /\ Top.phase \in {"list", "desc"}
    /\ \E outcome \in Outcomes :
         /\ outcome # "ok" => faults < MaxFaults
         /\ LET eff == AttemptEffect(call.attempt, outcome)
                outs == Append(call.outcomes, outcome)
                slept == Append(call.waits, eff.wait)
                errs == call.errors \o eff.error
                response ==
                    IF eff.next # "return" THEN None
                    ELSE IF Top.phase = "list"
                    THEN ListPage(remote, Top.folder_id, Top.page_token)
                    ELSE GetMeta(remote, Top.item.id)
            IN /\ faults' = IF outcome = "ok" THEN faults ELSE faults + 1
               /\ stats' = StatsAfterAttempt(stats, eff)
               /\ attempts' = attempts + 1
               /\ IF eff.next = "retry"
                  THEN /\ call' = [attempt |-> call.attempt + 1,
                                   outcomes |-> outs, waits |-> slept,
                                   errors |-> errs]
                       /\ UNCHANGED <<stack, lastCall, listingExhausted,
                                      listingDenied, pc>>
                  ELSE /\ call' = FreshCall
                       /\ lastCall' =
                            [kind |-> Top.phase, outcomes |-> outs,
                             waits |-> slept, errors |-> errs,
                             status |-> IF eff.next = "raise" THEN "raised"
                                        ELSE IF eff.next = "return"
                                        THEN "value" ELSE "None"]
                       /\ listingExhausted' =
                            (listingExhausted
                               \/ (Top.phase = "list" /\ Exhausted(outs)))
                       /\ listingDenied' =
                            (listingDenied
                               \/ (Top.phase = "list"
                                     /\ outcome = "forbidden"))
                       /\ IF eff.next = "raise" /\ ~CallerCatches(Top.phase)
                          THEN pc' = "failed" /\ stack' = <<>>
                          ELSE /\ pc' = pc
                               /\ stack' = SetTop(
                                    IF Top.phase = "list"
                                    THEN [Top EXCEPT !.phase = "listed",
                                                     !.response = response]
                                    ELSE [Top EXCEPT !.phase = "described",
                                                     !.meta = response])
    /\ UNCHANGED <<store, runs, remote, current_version, previous_data,
                   scan_data, changes, new_version,
                   versionVars, diffVars, historyVars, prevRun>>

\* Lines 418-421: no response ends the folder's listing, a page is walked.
HandleListing ==
    /\ pc = "scan" /\ stack # <<>> /\ Top.phase = "listed"
    /\ stack' = SetTop(IF Top.response = None
                       THEN [Top EXCEPT !.phase = "return"]
                       ELSE [Top EXCEPT !.phase = "items",
                                        !.items = Top.response.files])
    /\ UNCHANGED <<store, runs, faults, pc, remote, current_version,
                   previous_data, stats, call, lastCall, listingExhausted,
                   scan_data, changes, new_version,
                   versionVars, diffVars, historyVars, observed>>

\* Lines 421-494: the next entry of the page: a file becomes a child, a
\* folder starts the recursive call of line 426.
ProcessItem ==
    /\ pc = "scan" /\ stack # <<>> /\ Top.phase = "items" /\ Top.items # <<>>
    /\ LET item == Head(Top.items)
       IN IF item.mimeType = FolderMime
          THEN /\ stats' = [stats EXCEPT !.totalFolders = @ + 1]
               /\ stack' = Append(SetTop(FrameEnteringFolder(Top, item)),
                                  NewFrame(item.id))
               /\ call' = FreshCall
          ELSE /\ stats' = [stats EXCEPT !.totalFiles = @ + 1]
               /\ stack' = SetTop(FrameWithFile(Top, item))
               /\ call' = call
    /\ UNCHANGED <<store, runs, faults, pc, remote, current_version,
                   previous_data, lastCall, listingExhausted,
                   scan_data, changes, new_version,
                   versionVars, diffVars, historyVars, observed>>

\* Lines 496-498: the page is done; the next one is asked for, if any.
PageEnd ==
    /\ pc = "scan" /\ stack # <<>> /\ Top.phase = "items" /\ Top.items = <<>>
    /\ stack' = SetTop(FrameAfterPage(Top))
    /\ call' = FreshCall
    /\ UNCHANGED <<store, runs, faults, pc, remote, current_version,
                   previous_data, stats, lastCall, listingExhausted,
                   scan_data, changes, new_version,
                   versionVars, diffVars, historyVars, observed>>

\* Lines 500-508: the folder's result returned, to run() (line 593) or to
\* the parent's loop (line 426), which then fetches the description.
FolderReturn ==
    /\ pc = "scan" /\ stack # <<>> /\ Top.phase = "return"
    /\ LET result == TreeResult(Top.fileCount, Top.folderCount, Top.children)
           n == Len(stack)
       IN IF n = 1
          THEN /\ scan_data' = result
               /\ stack' = <<>>
               /\ pc' = "detect"
          ELSE /\ scan_data' = scan_data
               /\ stack' = [SubSeq(stack, 1, n - 1) EXCEPT
                              ![n - 1] = [@ EXCEPT !.subtree = result,
                                                   !.phase = "desc"]]
               /\ pc' = pc
    /\ call' = FreshCall
    /\ UNCHANGED <<store, runs, faults, remote, current_version,
                   previous_data, stats, lastCall, listingExhausted,
                   changes, new_version, versionVars, diffVars, historyVars,
                   observed>>

\* Lines 427-446: the description back, the child folder appended.
HandleDescription ==
    /\ pc = "scan" /\ stack # <<>> /\ Top.phase = "described"
    /\ stack' = SetTop(FrameWithFolder(Top, DescriptionOf(Top.meta)))
    /\ UNCHANGED <<store, runs, faults, pc, remote, current_version,
                   previous_data, stats, call, lastCall, listingExhausted,
                   scan_data, changes, new_version,
                   versionVars, diffVars, historyVars, observed>>

\* run(), lines 599-606; an exception of detect_changes or of
\* increment_version ends the run.
DetectAndVersion ==
    /\ pc = "detect"
    /\ LET det == TryDetectChanges(scan_data, previous_data)
           nv == DetermineNewVersion(current_version, det.val.total_changes)
       IN IF det.exc # "none"
          THEN changes' = None /\ new_version' = None /\ pc' = "failed"
          ELSE /\ changes' = det.val
               /\ IF nv.exc = "none"
                  THEN new_version' = nv.val /\ pc' = "saveData"
                  ELSE new_version' = None /\ pc' = "failed"
    /\ UNCHANGED <<store, runs, faults, remote, current_version,
                   previous_data, stats, stack, call, lastCall,
                   listingExhausted, scan_data,
                   versionVars, diffVars, historyVars, observed>>

\* Lines 523-539: data.json written; a failing open leaves the old file, a
\* failing dump a truncated one, and the exception ends the run.
WriteData ==
    /\ pc = "saveData"
    /\ \/ /\ store' = [store EXCEPT
                         !.data = OutputData(scan_data, new_version, runs,
                                             stats)]
          /\ pc' = "saveChangelog"
          /\ faults' = faults
       \/ /\ faults < MaxFaults
          /\ faults' = faults + 1
          /\ \E left \in {store.data, Corrupt} :
                store' = [store EXCEPT !.data = left]
          /\ pc' = "failed"
    /\ UNCHANGED <<runs, remote, current_version, previous_data, stats,
                   stack, call, lastCall, listingExhausted, scan_data,
                   changes, new_version, versionVars, diffVars, historyVars,
                   observed>>

\* Lines 541-578: the history merged and changelog.json written.
WriteChangelog ==
    /\ pc = "saveChangelog"
    /\ \/ /\ store' = [store EXCEPT
                         !.changelog =
                            ChangelogData(store.changelog, scan_data,
                                new_version, runs, changes,
                                extract_file_signatures(scan_data), stats)]
          /\ pc' = "done"
          /\ faults' = faults
       \/ /\ faults < MaxFaults
          /\ faults' = faults + 1
          /\ \E left \in {store.changelog, Corrupt} :
                store' = [store EXCEPT !.changelog = left]
          /\ pc' = "failed"
    /\ UNCHANGED <<runs, remote, current_version, previous_data, stats,
                   stack, call, lastCall, listingExhausted, scan_data,
                   changes, new_version, versionVars, diffVars, historyVars,
                   observed>>

Next ==
    \/ StartRun
    \/ LoadPrevious
    \/ ApiAttempt
    \/ HandleListing
    \/ ProcessItem
    \/ PageEnd
    \/ FolderReturn
    \/ HandleDescription
    \/ DetectAndVersion
    \/ WriteData
    \/ WriteChangelog

Spec == Init /\ [][Next]_vars


\* C1: a call whose maxRetries attempts all fail with a transient failure
\* (rate limit or another non-permission failure, in any mix) raises to its
\* caller; it never returns a value, None included.
C1_ExhaustedCallRaises ==
    (lastCall.status # "nocall" /\ Exhausted(lastCall.outcomes)) =>
        lastCall.status = "raised"

WrittenThisRun(bundle) ==
    /\ bundle.kind = "json"
    /\ (IF HasKey(bundle, "scan_history") THEN bundle.scan_history.scan_date
        ELSE bundle.scan_date) = runs

\* C2: when a folder listing uses up its retry budget without a response
\* (and not by a permission-denied response), the run writes neither
\* data.json nor changelog.json.
C2_NoPartialOutput ==
    listingExhausted =>
        /\ ~WrittenThisRun(store.data)
        /\ ~WrittenThisRun(store.changelog)

StoredHistory == load_version_history(store.changelog)

\* C9: from an empty store on, every entry of the persisted version_history
\* other than the oldest has total_changes > 0, and a scan that detects no
\* changes adds no entry to a non-empty history.
C9_NoConsecutiveNoOps ==
    /\ [](\A i \in 1..(Len(StoredHistory) - 1) :
             StoredHistory[i].changes.total_changes > 0)
    /\ [][(/\ pc = "saveChangelog" /\ pc' = "done"
           /\ changes.total_changes = 0
           /\ StoredHistory # <<>>)
             => Len(StoredHistory') = Len(StoredHistory)]_vars

\* A second scan that found nothing changed: the head refreshed, no entry
\* added.
C9_Witness ==
    /\ pc = "done" /\ runs = 2
    /\ changes.total_changes = 0
    /\ Len(StoredHistory) = 1
    /\ StoredHistory[1].scan_date = 2

(***************************************************************************)
(* SpecScan: one run of the scanner from an empty store, over remote trees *)
(* up to three folders deep, with up to MaxFaults failing attempts or      *)
(* writes.                                                                 *)
(***************************************************************************)
\* Each of two files is absent, in the root, in the subfolder, or in the
\* subfolder's subfolder; a third is absent or in the root.
ScanRemotes ==
    {[f1 |-> p1, f2 |-> p2, f3 |-> p3] :
        p1, p2 \in {Absent, [loc |-> "root", v |-> VariantA],
                    [loc |-> "sub", v |-> VariantA],
                    [loc |-> "deep", v |-> VariantB]},
        p3 \in {Absent, [loc |-> "root", v |-> VariantB]}}

\* SimpleDriveScanner() constructed (lines 87-99) and run() called.
InitScan ==
    /\ store = [data |-> Missing, changelog |-> Missing]
    /\ runs = 1 /\ faults = 0 /\ pc = "load"
    /\ remote \in ScanRemotes
    /\ current_version = Str(DefaultVersion) /\ previous_data = None
    /\ stats = InitialStats /\ stack = <<>> /\ call = FreshCall
    /\ lastCall = NoCall /\ listingExhausted = FALSE
    /\ listingDenied = FALSE /\ attempts = 0 /\ prevRun = NoRun
    /\ scan_data = None /\ changes = None /\ new_version = None
    /\ IdleVersion /\ IdleDiff /\ IdleHistory

NextScan ==
    \/ LoadPrevious
    \/ ApiAttempt
    \/ HandleListing
    \/ ProcessItem
    \/ PageEnd
    \/ FolderReturn
    \/ HandleDescription
    \/ DetectAndVersion
    \/ WriteData
    \/ WriteChangelog

SpecScan == InitScan /\ [][NextScan]_vars

\* The folder whose listing the top frame waits on got a permission-denied
\* response.
ListingDenied ==
    /\ pc = "scan" /\ stack # <<>>
    /\ Top.phase = "listed" /\ Top.response = None
    /\ lastCall.kind = "list"
    /\ "forbidden" \in Range(lastCall.outcomes)

\* C11: a permission-denied response is the call's last attempt, the call
\* appends exactly one entry to stats['errors'] and returns None without
\* raising; get_folder_tree then leaves that folder's loop with the children
\* it has, without raising, and the scan goes on: only a raised call ends a
\* scan.
C11_PermissionDeniedDegrades ==
    /\ []((lastCall.status # "nocall"
            /\ "forbidden" \in Range(lastCall.outcomes)) =>
             /\ \A i \in DOMAIN lastCall.outcomes :
                   lastCall.outcomes[i] = "forbidden"
                     <=> i = Len(lastCall.outcomes)
             /\ lastCall.status = "None"
             /\ Len(lastCall.errors) = 1)
    /\ []("forbidden" \notin Range(call.outcomes))
    /\ []((pc = "failed" /\ scan_data = None) => lastCall.status = "raised")
    /\ [][ListingDenied =>
             /\ pc' = "scan"
             /\ Len(stack') = Len(stack)
             /\ Top' = [Top EXCEPT !.phase = "return"]
             /\ stats' = stats]_vars

\* A run that completed although the listing of the subfolder was denied:
\* the subfolder is in the tree, the file in it is not.
C11_Witness ==
    /\ pc = "done"
    /\ stats.errors = <<"Access forbidden">>
    /\ remote["f1"].loc = "root" /\ remote["f2"].loc = "sub"
    /\ scan_data.fileCount = 1 /\ scan_data.folderCount = 1
    /\ Len(scan_data.children) = 2
    /\ scan_data.children[2].children = <<>>

\* The run before completed, this run met the same remote tree, each of its
\* listing calls returned a page, and it has got past the version step.
RescanOfSameTree ==
    /\ prevRun.done
    /\ remote = prevRun.remote
    /\ ~listingExhausted /\ ~listingDenied
    /\ pc \in {"saveData", "saveChangelog", "done"}

\* The stored history after this run is the one before it with the head's
\* scan_date and stats replaced.
HeadRefreshed ==
    LET old == load_version_history(prevRun.changelog)
        new == load_version_history(store.changelog)
    IN /\ Len(new) = Len(old)
       /\ DOMAIN new[1] = DOMAIN old[1]
       /\ \A k \in DOMAIN old[1] \ {"scan_date", "stats"} :
             new[1][k] = old[1][k]
       /\ new[1].scan_date = runs
       /\ new[1].stats = [totalFiles |-> stats.totalFiles,
                          totalFolders |-> stats.totalFolders]
       /\ \A i \in 2..Len(old) : new[i] = old[i]

\* The run found nothing changed and persisted what the run before had.
NoOpRescan ==
    LET persisted == prevRun.changelog.scan_history.version
    IN /\ changes.total_changes = 0
       /\ new_version = persisted
       /\ pc \in {"saveChangelog", "done"} => store.data.version = persisted
       /\ pc = "done" =>
             /\ store.changelog.scan_history.version = persisted
             /\ HeadRefreshed

\* C14 as stated: after a run that completed, a run over the same remote
\* tree whose listing calls all succeed computes total_changes = 0, persists
\* the same version, and leaves version_history at the same length with only
\* the head's scan_date and stats refreshed.
C14_RescanIsNoOp == RescanOfSameTree => NoOpRescan

\* C14, amended: the same, when the listing calls of the run before all
\* succeeded too.
C14_CleanRescanIsNoOp == (RescanOfSameTree /\ prevRun.listed) => NoOpRescan

\* Two runs over a tree with a file in the root and one in the subfolder,
\* the second with a retried attempt.
C14_Witness ==
    /\ pc = "done" /\ runs = 2
    /\ RescanOfSameTree /\ prevRun.listed
    /\ remote["f1"].loc = "root" /\ remote["f2"].loc = "sub"
    /\ attempts > 5
    /\ changes.total_changes = 0
    /\ Len(load_version_history(store.changelog)) = 1
    /\ load_version_history(store.changelog)[1].scan_date = 2

FilesIn(children) == SelectSeq(children, LAMBDA c : c.type = "file")

FoldersIn(children) == SelectSeq(children, LAMBDA c : c.type = "folder")

RECURSIVE SumField(_, _)
SumField(nodes, field) ==
    IF nodes = <<>> THEN 0
    ELSE Head(nodes)[field] + SumField(Tail(nodes), field)

RECURSIVE AggregatesHold(_)
AggregatesHold(node) ==
    LET folders == FoldersIn(node.children)
    IN /\ node.fileCount = Len(FilesIn(node.children))
                              + SumField(folders, "fileCount")
       /\ node.folderCount = Len(folders) + SumField(folders, "folderCount")
       /\ \A i \in DOMAIN folders : AggregatesHold(folders[i])

\* C15: in every folder node get_folder_tree produces, a folder whose
\* listing was cut short included, fileCount is the number of direct file
\* children plus the fileCount of each direct folder child, and folderCount
\* the number of direct folder children plus the folderCount of each.
C15_AggregatesAreSums ==
    /\ scan_data # None => AggregatesHold(scan_data)
    /\ \A i \in DOMAIN stack :
          stack[i].phase = "return" =>
              AggregatesHold(TreeResult(stack[i].fileCount,
                                        stack[i].folderCount,
                                        stack[i].children))

\* A file in the root and one two folders down: the root counts 2 files and
\* 2 folders, the subfolder 1 and 1.
C15_Witness ==
    /\ pc = "detect"
    /\ scan_data.fileCount = 2 /\ scan_data.folderCount = 2
    /\ Len(scan_data.children) = 2
    /\ scan_data.children[2].fileCount = 1
    /\ scan_data.children[2].folderCount = 1
    /\ stats.errors = <<>>

\* The listing of the root was denied on its second page: the root keeps
\* the one file it had listed.
C15_WitnessDenied ==
    /\ pc = "detect"
    /\ listingDenied
    /\ Len(RemoteEntries(remote, RootId)) = 2
    /\ scan_data.fileCount = 1 /\ scan_data.folderCount = 0

\* The description fetch of the folder just listed ended without a value:
\* it raised, or returned None.
DescriptionFailed ==
    /\ pc = "scan" /\ stack # <<>>
    /\ Top.phase = "described" /\ Top.meta = None

\* C17: a description fetch that fails, in whatever way, does not end the
\* scan: every step from a pending fetch stays in the scan, only a listing
\* call ends a scan early, and after a failed fetch the folder node is
\* appended with description '' and the children and aggregates of its
\* subtree, which are folded into the parent.
C17_DescriptionFailureTolerated ==
    /\ []((pc = "failed" /\ scan_data = None) => lastCall.kind = "list")
    /\ [][(pc = "scan" /\ stack # <<>> /\ Top.phase = "desc") =>
             /\ pc' = "scan"
             /\ Len(stack') = Len(stack)
             /\ Top'.phase \in {"desc", "described"}]_vars
    /\ [][DescriptionFailed =>
             /\ pc' = "scan"
             /\ Len(stack') = Len(stack)
             /\ Top'.children =
                   Append(Top.children,
                          [type |-> "folder", id |-> Top.item.id,
                           name |-> Top.item.name, description |-> <<>>,
                           fileCount |-> Top.subtree.fileCount,
                           folderCount |-> Top.subtree.folderCount,
                           children |-> Top.subtree.children])
             /\ Top'.fileCount = Top.fileCount + Top.subtree.fileCount
             /\ Top'.folderCount = Top.folderCount + Top.subtree.folderCount
             /\ Top'.phase = "items"]_vars

\* The description fetch of the subfolder raised on its last attempt; the
\* scan completed, the subfolder in the tree with its file and no
\* description.
C17_Witness ==
    /\ pc = "detect"
    /\ lastCall.kind = "desc" /\ lastCall.status = "raised"
    /\ remote["f1"].loc = "absent" /\ remote["f2"].loc = "sub"
    /\ scan_data.folderCount = 1 /\ scan_data.fileCount = 1
    /\ scan_data.children[1].description = <<>>
    /\ Len(scan_data.children[1].children) = 1

\* The same with a fetch that was denied, and returned None.
C17_WitnessDenied ==
    /\ pc = "detect"
    /\ lastCall.kind = "desc" /\ lastCall.status = "None"
    /\ scan_data.folderCount = 1 /\ scan_data.fileCount = 1
    /\ scan_data.children[1].description = <<>>
    /\ Len(scan_data.children[1].children) = 1

IdsIn(entries) == [i \in DOMAIN entries |-> entries[i].id]

IsPrefix(a, b) == Len(a) <= Len(b) /\ a = SubSeq(b, 1, Len(a))

\* The ids a frame has taken from the pages so far: its children, the
\* folder it is inside of, and the rest of the page at hand.
TakenIds(frame) ==
    IdsIn(frame.children)
      \o (IF frame.item # None THEN <<frame.item.id>> ELSE <<>>)
      \o IdsIn(frame.items)

\* The folder's loop has ended and every listing call returned a page.
ListedToTheEnd(frame) == frame.phase = "return" /\ frame.response # None

\* The top frame has walked a whole page.
PageWalked ==
    /\ pc = "scan" /\ stack # <<>>
    /\ Top.phase = "items" /\ Top.items = <<>>

\* C18: a folder's loop takes the entries of the pages in page order, each
\* once; after a page with a continuation token the next request carries
\* that token, after a page without one the loop ends at once; and when
\* every listing call of the folder returned a page, its children are
\* exactly the remote folder's entries, in order.
C18_PagesFollowed ==
    /\ [](\A i \in DOMAIN stack :
            LET all == IdsIn(RemoteEntries(remote, stack[i].folder_id))
            IN /\ IsPrefix(TakenIds(stack[i]), all)
               /\ ListedToTheEnd(stack[i]) =>
                     /\ IdsIn(stack[i].children) = all
                     /\ stack[i].response.nextPageToken = None)
    /\ [][(PageWalked /\ Top.response.nextPageToken # None) =>
             /\ Len(stack') = Len(stack)
             /\ Top'.phase = "list"
             /\ Top'.page_token = Top.response.nextPageToken
             /\ Top'.children = Top.children]_vars
    /\ [][(PageWalked /\ Top.response.nextPageToken = None) =>
             /\ Len(stack') = Len(stack)
             /\ Top'.phase = "return"
             /\ Top'.children = Top.children]_vars

\* The root holds three files: its listing took more than one page, the
\* last token followed, and the three are its children in order.
C18_Witness ==
    /\ pc = "scan" /\ Len(stack) = 1
    /\ ListedToTheEnd(Top)
    /\ Top.page_token # None
    /\ IdsIn(Top.children) = <<"f1", "f2", "f3">>

\* C19: a call makes at least one attempt and at most maxRetries; a call
\* in progress has made fewer than maxRetries; every attempt, failed ones
\* included, adds exactly one to stats['apiCallsCount'], which so equals
\* the number of attempts made in the run.
C19_AttemptsCounted ==
    /\ [](stats.apiCallsCount = attempts)
    /\ [](lastCall.status # "nocall" =>
             Len(lastCall.outcomes) \in 1..maxRetries)
    /\ [](Len(call.outcomes) = call.attempt /\ call.attempt < maxRetries)
    /\ [][(pc = "scan" /\ faults' = faults + 1) =>
             stats'.apiCallsCount = stats.apiCallsCount + 1]_vars
    /\ [][(pc = "scan" /\ lastCall' # lastCall) =>
             stats'.apiCallsCount = stats.apiCallsCount + 1]_vars

\* An empty root listed at the third attempt, after a rate-limited and a
\* failed one: one call, three attempts counted.
C19_Witness ==
    /\ pc = "detect"
    /\ lastCall.outcomes = <<"rate", "http", "ok">>
    /\ lastCall.status = "value"
    /\ attempts = 3
    /\ stats.apiCallsCount = 3

\* The waits of the attempts of a call are as stated: attempt i (counted
\* from 1) slept retryDelay * 2^(i-1) when rate-limited, retryDelay when it
\* failed otherwise and was not the last one, and not at all when it
\* succeeded or was denied.
WaitsAsStated(c) ==
    \A i \in DOMAIN c.outcomes :
        /\ c.outcomes[i] = "rate" =>
              c.waits[i] = <<retryDelay * 2 ^ (i - 1)>>
        /\ (c.outcomes[i] \in {"http", "error"} /\ i < maxRetries) =>
              c.waits[i] = <<retryDelay>>
        /\ c.outcomes[i] \in {"ok", "forbidden"} => c.waits[i] = <<>>

\* C20: the waits are as stated, for the call in progress and the call just
\* completed; in a completed call every rate-limited attempt, and every
\* attempt that failed otherwise and was not the last one, was followed by
\* another attempt.
C20_WaitThenRetry ==
    /\ WaitsAsStated(call)
    /\ WaitsAsStated(lastCall)
    /\ \A i \in DOMAIN lastCall.outcomes :
          /\ lastCall.outcomes[i] = "rate" => i < Len(lastCall.outcomes)
          /\ (lastCall.outcomes[i] \in {"http", "error"} /\ i < maxRetries)
                => i < Len(lastCall.outcomes)

\* C20, amended: the same, a rate-limited attempt being followed by another
\* attempt when it is not the last one; after a rate-limited last attempt
\* the wait is made and the call ends.
C20_WaitThenRetryWithinBudget ==
    /\ WaitsAsStated(call)
    /\ WaitsAsStated(lastCall)
    /\ \A i \in DOMAIN lastCall.outcomes :
          (lastCall.outcomes[i] \in {"rate", "http", "error"}
             /\ i < maxRetries) => i < Len(lastCall.outcomes)

\* A call rate-limited three times: waits of 2, 4 and 8 seconds, and no
\* fourth attempt.
C20_Witness ==
    /\ lastCall.outcomes = <<"rate", "rate", "rate">>
    /\ lastCall.waits = << <<2>>, <<4>>, <<8>> >>
    /\ lastCall.status = "None"

\* A call that failed, was rate-limited and then succeeded.
C20_WitnessMixed ==
    /\ lastCall.outcomes = <<"error", "rate", "ok">>
    /\ lastCall.waits = << <<2>>, <<4>>, <<>> >>
    /\ lastCall.status = "value"

(***************************************************************************)
(* The persisted versions, under Spec                                      *)
(***************************************************************************)
\* C21: after every run that completes, the version in data.json, the
\* version in changelog.json's scan_history and the version of the head
\* entry of version_history are equal (and are the version the run
\* computed); this is so after failed runs in between as well.
C21_PersistedVersionsAgree ==
    pc = "done" =>
        /\ store.data.kind = "json" /\ store.changelog.kind = "json"
        /\ StoredHistory # <<>>
        /\ store.data.version = new_version
        /\ store.changelog.scan_history.version = new_version
        /\ StoredHistory[1].version = new_version

\* Two runs that each detected a change: 1.0.2 in all three places, above
\* the entry of 1.0.1.
C21_Witness ==
    /\ pc = "done" /\ runs = 2 /\ prevRun.done
    /\ changes.total_changes > 0
    /\ Len(StoredHistory) = 2
    /\ store.data.version = Str(<<"1", ".", "0", ".", "2">>)
    /\ store.changelog.scan_history.version = store.data.version
    /\ StoredHistory[1].version = store.data.version

\* A run that found nothing changed after one that did: the refreshed head
\* still carries the version persisted elsewhere.
C21_WitnessNoOp ==
    /\ pc = "done" /\ runs = 2 /\ prevRun.done
    /\ changes.total_changes = 0
    /\ store.data.version = Str(<<"1", ".", "0", ".", "1">>)
    /\ StoredHistory[1].version = store.data.version
    /\ StoredHistory[1].scan_date = 2

\* The version the previous run persisted and the one this run persisted.
PersistedBefore == prevRun.changelog.scan_history.version
PersistedNow == store.changelog.scan_history.version

\* C23: when a completed run follows a completed run, the persisted version
\* is strictly greater (as an integer triple, lexicographically) if the run
\* detected at least one change, and the same if it detected none; so it
\* never decreases.
C23_VersionNeverDecreases ==
    (pc = "done" /\ prevRun.done) =>
        /\ WellFormed(PersistedBefore) /\ WellFormed(PersistedNow)
        /\ HasChanges(changes.total_changes) =>
               LexLess(Triple(PersistedBefore), Triple(PersistedNow))
        /\ ~HasChanges(changes.total_changes) =>
               PersistedNow = PersistedBefore
        /\ ~LexLess(Triple(PersistedNow), Triple(PersistedBefore))

\* 1.0.1 persisted, then a run that detects a change persists 1.0.2.
C23_Witness ==
    /\ pc = "done" /\ prevRun.done
    /\ HasChanges(changes.total_changes)
    /\ PersistedBefore = Str(<<"1", ".", "0", ".", "1">>)
    /\ PersistedNow = Str(<<"1", ".", "0", ".", "2">>)

\* 1.0.1 persisted, then a run that detects nothing persists 1.0.1 again.
C23_WitnessUnchanged ==
    /\ pc = "done" /\ prevRun.done
    /\ ~HasChanges(changes.total_changes)
    /\ PersistedBefore = Str(<<"1", ".", "0", ".", "1">>)
    /\ PersistedNow = PersistedBefore

\* C24: the persisted version_history is ordered newest first with no
\* repeated version: the versions of its entries strictly decrease (as
\* integer triples, lexicographically) from the head to the tail.
C24_HistoryStrictlyDecreasing ==
    /\ \A i \in 1..Len(StoredHistory) :
           WellFormed(StoredHistory[i].version)
    /\ \A i \in 1..(Len(StoredHistory) - 1) :
           LexLess(Triple(StoredHistory[i + 1].version),
                   Triple(StoredHistory[i].version))

\* Two completed runs, the second with a change: 1.0.1 above 1.0.0.
C24_Witness ==
    /\ pc = "done" /\ prevRun.done
    /\ Len(StoredHistory) = 2
    /\ StoredHistory[1].version = Str(<<"1", ".", "0", ".", "1">>)
    /\ StoredHistory[2].version = Str(<<"1", ".", "0", ".", "0">>)

\* The two files describe the same scan: neither exists yet, or both parse
\* and data.json carries the version of changelog.json's scan_history.
StoreConsistent ==
    \/ store.data = Missing /\ store.changelog = Missing
    \/ /\ store.data.kind = "json" /\ store.changelog.kind = "json"
       /\ HasKey(store.changelog, "scan_history")
       /\ store.data.version = store.changelog.scan_history.version

\* C22: whenever run() has failed with an exception, at whatever step, the
\* persisted store is mutually consistent: the version in data.json equals
\* the version in changelog.json's scan_history.
C22_FailedRunLeavesConsistentStore ==
    pc = "failed" => StoreConsistent

\* The failed run this is about: data.json was written whole (lines
\* 536-537) with the new version, then the write of changelog.json (lines
\* 575-576) raised and left the previous changelog in place.
C22_DataAheadOfChangelog ==
    /\ pc = "failed"
    /\ store.data.kind = "json" /\ store.changelog.kind = "json"
    /\ store.data.version = Str(<<"1", ".", "0", ".", "1">>)
    /\ store.changelog.scan_history.version
           = Str(<<"1", ".", "0", ".", "0">>)

(***************************************************************************)
(* The totals of detect_changes, under SpecDiff                            *)
(***************************************************************************)
\* The two signature maps hold the same ids and agree on each id's name,
\* size and modified time.
SameSignatures ==
    /\ CurIds = PrevIds
    /\ \A k \in CurIds :
          /\ dCur.map[k].name = dPrev.file_signatures.map[k].name
          /\ dCur.map[k].size = dPrev.file_signatures.map[k].size
          /\ dCur.map[k].modified = dPrev.file_signatures.map[k].modified

\* C13: total_changes = |added_files| + |deleted_files| + |modified_files|;
\* it is 0 iff the two signature maps have the same id set and agree on
\* name, size and modified for every id, and the summary is the fixed
\* 'No changes detected' exactly then.
C13_TotalIsSum ==
    dpc = "done" =>
        /\ dOut.total_changes = Len(dOut.added_files)
              + Len(dOut.deleted_files) + Len(dOut.modified_files)
        /\ (dOut.total_changes = 0) <=> SameSignatures
        /\ (dOut.total_changes = 0)
              <=> (dOut.summary = <<"No changes detected">>)

\* Both files are in the tree and in the previous map, unchanged.
C13_Witness ==
    /\ dpc = "done"
    /\ CurIds = {"f1", "f2"}
    /\ SameSignatures
    /\ dOut.total_changes = 0
    /\ dOut.summary = <<"No changes detected">>

\* One file modified and nothing else: the total is 1.
C13_WitnessModified ==
    /\ dpc = "done"
    /\ CurIds = PrevIds /\ ~SameSignatures
    /\ dOut.total_changes = 1
    /\ Len(dOut.modified_files) = 1

(***************************************************************************)
(* SpecStored: runs of the scanner over a changelog.json that something    *)
(* else left behind: absent, unparsable, or JSON of any shape.             *)
(***************************************************************************)
StoredVersions == {Str(DefaultVersion), Str(<<"abc">>), None, Num(1)}

\* Values found under "file_signatures": signature maps (empty, or with the
\* entry of f1 as the program writes it), a map whose entry is null, and
\* values that are no dict.
StoredSignatures ==
    {EmptyDict,
     DictSet(EmptyDict, "f1",
             [signature |-> <<"f1">>, name |-> VariantA.name,
              size |-> VariantA.size, modified |-> <<"2024-01-01">>]),
     DictSet(EmptyDict, "f1", None),
     None, List(<<>>), Str(<<"x">>)}

\* Values found under "scan_history": dicts with and without each of the
\* two keys run() reads, and values that are no dict.
StoredScans ==
    {[version |-> v, file_signatures |-> g] :
        v \in StoredVersions, g \in StoredSignatures}
      \cup {[version |-> v] : v \in StoredVersions}
      \cup {[file_signatures |-> g] : g \in StoredSignatures}
      \cup {None, Str(<<"abc">>), List(<<Num(1)>>), List(<<>>)}

StoredChangelogs ==
    {Missing, Corrupt, NonObject, [kind |-> "json"]}
      \cup {[kind |-> "json", scan_history |-> h] : h \in StoredScans}

\* The last of the MaxRuns runs is about to start, and one more failure of
\* an attempt or of a write can happen.
InitStored ==
    /\ store \in {[data |-> Missing, changelog |-> c] : c \in StoredChangelogs}
    /\ runs = MaxRuns - 1 /\ faults = MaxFaults - 1 /\ pc = "idle"
    /\ remote = None /\ current_version = None /\ previous_data = None
    /\ stats = InitialStats /\ stack = <<>> /\ call = FreshCall
    /\ lastCall = NoCall /\ listingExhausted = FALSE
    /\ listingDenied = FALSE /\ attempts = 0 /\ prevRun = NoRun
    /\ scan_data = None /\ changes = None /\ new_version = None
    /\ IdleVersion /\ IdleDiff /\ IdleHistory

SpecStored == InitStored /\ [][Next]_vars

\* changelog.json holds no previous scan that load_previous_scan can hand
\* over: it is missing, unparsable, no object, or its scan_history is absent,
\* empty or no dict.
NoStoredScan(changelog) ==
    \/ changelog.kind # "json"
    \/ ~HasKey(changelog, "scan_history")
    \/ ~IsDict(changelog.scan_history)
    \/ ~Truthy(changelog.scan_history)

\* C12: whatever changelog.json holds, the run goes on: from the default
\* baseline when the file holds no previous scan, and without an exception
\* of detect_changes or increment_version (the steps of run() that read the
\* stored scan) in every case.
C12_CorruptStoreTolerated ==
    /\ (pc \in {"scan", "detect"} /\ NoStoredScan(store.changelog)) =>
           /\ previous_data = DefaultPrevious
           /\ current_version = Str(DefaultVersion)
    /\ ~(pc = "failed" /\ scan_data # None /\ new_version = None)

=============================================================================
